---- MODULE Spec2Model ----
(***************************************************************************)
(* The snapshot store of the test worker (SnapshotManager.ts): the         *)
(* path -> Snapshot mapping with its lazy, lock-wrapped load, get/set,     *)
(* getModifiedSnapshots and the inline snapshot matcher.                   *)
(*                                                                         *)
(* Text (test names, entry names, heading text, code block text) is a      *)
(* sequence of one-character strings, so that string concatenation,        *)
(* slicing and trimming are computed as the code computes them.            *)
(* A Snapshot object has an identity: records is the heap of Snapshot      *)
(* objects ever created and snapshots maps a path to an index into it      *)
(* (0 is JavaScript's undefined).                                          *)
(***************************************************************************)
EXTENDS Integers, Sequences, FiniteSets, TLC

\* ------------------------------------------------------------------ bounds
\* Number of calls of get(), set() and testInlineSnapshot() made in a run.
MaxCalls == 3

\* ------------------------------------------------------------------- text
SNAPSHOT_EXT == ".test.md"

T_t == <<"t">>
T_ta == <<"t", "#", "a">>
E_0 == <<"0">>
E_a0 == <<"a", "#", "0">>
V_1 == <<"v", "1">>
V_2 == <<"v", "2">>

TestNames == {T_t}
EntryNames == {E_0, E_a0}
Values == {V_1, V_2}
\* language: undefined | string; NoLanguage stands for the undefined value (it
\* is no text: a text is a sequence of characters).
NoLanguage == <<"undefined">>
L_js == <<"j", "s">>
Languages == {NoLanguage}

\* The backquote character (the parser of TLA+ admits none in a string).
BACKTICK == "'"

RECURSIVE TrimStart(_)
TrimStart(s) == IF s # <<>> /\ Head(s) = " " THEN TrimStart(Tail(s)) ELSE s

RECURSIVE TrimEnd(_)
TrimEnd(s) ==
  IF s # <<>> /\ s[Len(s)] = " " THEN TrimEnd(SubSeq(s, 1, Len(s) - 1)) ELSE s

\* String.prototype.trim
Trim(s) == TrimEnd(TrimStart(s))

cleanHeading(key) ==
  LET k1 == IF key # <<>> /\ key[1] = BACKTICK THEN Tail(key) ELSE key
      k2 == IF k1 # <<>> /\ k1[Len(k1)] = BACKTICK THEN SubSeq(k1, 1, Len(k1) - 1) ELSE k1
  IN  Trim(k2)

buildEntriesKey(testName, entryName) == testName \o <<"#">> \o entryName

\* ------------------------------------------------------------------ paths
\* A path is its basename without extensions and its extensions.
Path(base, ext) == [base |-> base, ext |-> ext]
defaultSnapshotPath == Path("test", SNAPSHOT_EXT)
otherSnapshotPath == Path("other", SNAPSHOT_EXT)
Paths == {defaultSnapshotPath, otherSnapshotPath}

\* optionalFilename: undefined | string, resolved against the test's folder.
NoFilename == Path("", "")
OptionalFilenames == {NoFilename, Path("other", ""), Path("other", SNAPSHOT_EXT)}

normalizeSnapshotPath(filename) ==
  IF filename = NoFilename THEN defaultSnapshotPath
  ELSE IF filename.ext = SNAPSHOT_EXT THEN filename
  ELSE Path(filename.base, SNAPSHOT_EXT)

\* ------------------------------------------------------- snapshot records
SnapshotEntry(testName, entryName, language, value, used) ==
  [testName |-> testName, entryName |-> entryName, language |-> language,
   value |-> value, used |-> used]

EmptyEntries == [k \in {} |-> TRUE]

\* Map.prototype.set
MapSet(m, k, v) == [x \in (DOMAIN m) \cup {k} |-> IF x = k THEN v ELSE m[x]]

Snapshot(existsOnDisk, used, raw, entries) ==
  [existsOnDisk |-> existsOnDisk, used |-> used, raw |-> raw, entries |-> entries]

\* ------------------------------------------------------ snapshot file nodes
Heading(level, text) ==
  [type |-> "Heading", level |-> level, text |-> text, language |-> NoLanguage]
CodeBlock(language, text) ==
  [type |-> "CodeBlock", level |-> 0, text |-> text, language |-> language]

Tick(s) == <<BACKTICK>> \o s \o <<BACKTICK>>

\* Test t with one anonymous entry, and test u with the entry x.
FileTwoTests ==
  << Heading(1, Tick(<<"f">>)), Heading(2, Tick(T_t)), CodeBlock(NoLanguage, V_1),
     Heading(2, Tick(<<"u">>)), Heading(3, Tick(<<"x">>)), CodeBlock(L_js, V_2) >>
\* Test t with a named entry, then an entry heading that no code block follows.
FileMissingCodeBlock ==
  << Heading(1, Tick(<<"f">>)), Heading(2, Tick(T_t)),
     Heading(3, Tick(E_0)), CodeBlock(NoLanguage, V_1),
     Heading(3, Tick(E_a0)) >>

NoFile == [exists |-> FALSE, content |-> <<>>]
File(nodes) == [exists |-> TRUE, content |-> nodes]
Files == {File(FileTwoTests), File(FileMissingCodeBlock)}

\* The walk of loadSnapshot over the nodes of a file: the entries set so far,
\* and whether EXPECTED_CODE_BLOCK_AFTER_HEADING was thrown.
ParseResult(entries, threw) == [entries |-> entries, threw |-> threw]

RECURSIVE loadTestEntries(_, _, _)
\* The inner loop: [nodes, entries, threw] when it is left.
loadTestEntries(nodes, testName, entries) ==
  IF nodes = <<>> THEN [nodes |-> nodes, entries |-> entries, threw |-> FALSE]
  ELSE
    LET node == Head(nodes) IN
    IF node.type = "Heading" /\ node.level = 3 THEN
      LET rest == Tail(nodes)
          entryName == cleanHeading(node.text)
      IN  IF rest = <<>> \/ Head(rest).type # "CodeBlock"
          THEN [nodes |-> rest, entries |-> entries, threw |-> TRUE]
          ELSE loadTestEntries(
                 Tail(rest), testName,
                 MapSet(entries, buildEntriesKey(testName, entryName),
                        SnapshotEntry(testName, entryName, Head(rest).language,
                                      Head(rest).text, FALSE)))
    ELSE IF node.type = "CodeBlock" THEN
      [nodes |-> Tail(nodes),
       entries |-> MapSet(entries, buildEntriesKey(testName, <<"0">>),
                          SnapshotEntry(testName, <<"0">>, node.language,
                                        node.text, FALSE)),
       threw |-> FALSE]
    ELSE [nodes |-> nodes, entries |-> entries, threw |-> FALSE]

RECURSIVE loadEntries(_, _)
\* The outer loop.
loadEntries(nodes, entries) ==
  IF nodes = <<>> THEN ParseResult(entries, FALSE)
  ELSE
    LET node == Head(nodes) IN
    IF node.type = "Heading" /\ node.level = 1 THEN loadEntries(Tail(nodes), entries)
    ELSE IF node.type = "Heading" /\ node.level = 2 THEN
      LET r == loadTestEntries(Tail(nodes), cleanHeading(node.text), entries)
      IN  IF r.threw THEN ParseResult(r.entries, TRUE)
          ELSE loadEntries(r.nodes, r.entries)
    ELSE loadEntries(Tail(nodes), entries)

\* ---------------------------------------------------------- inline values
\* A JavaScript value: its type, and its text or its number.
JsString(str) == [type |-> "string", str |-> str, num |-> 0]
JsNumber(num) == [type |-> "number", str |-> "", num |-> num]
JsBoolean(b) == [type |-> "boolean", str |-> "", num |-> IF b THEN 1 ELSE 0]
JsNull == [type |-> "null", str |-> "", num |-> 0]
JsUndefined == [type |-> "undefined", str |-> "", num |-> 0]
\* An object, named by the text the pretty-printer gives it.
JsObject(str) == [type |-> "object", str |-> str, num |-> 0]

DigitText == <<"0", "1", "2", "3", "4", "5", "6", "7", "8", "9">>

\* The pretty-printer: the text of a value that is not a string.
prettyFormatToString(value) ==
  CASE value.type = "number" -> DigitText[value.num + 1]
    [] value.type = "boolean" -> (IF value.num = 1 THEN "true" ELSE "false")
    [] value.type = "null" -> "null"
    [] value.type = "undefined" -> "undefined"
    [] value.type = "object" -> value.str
    [] OTHER -> value.str

stringOrPrettyFormat(value) ==
  IF value.type = "string" THEN value.str ELSE prettyFormatToString(value)

\* ---------------------------------------------------------- buildSnapshot
NEWLINE == "\n"
IsDigit(c) == \E i \in 1 .. 10 : DigitText[i] = c
DigitValue(c) == (CHOOSE i \in 1 .. 10 : DigitText[i] = c) - 1

\* The UTF-16 code unit of a character of the texts used here.
CharCode(c) ==
  CASE c = NEWLINE -> 10
    [] c = " " -> 32
    [] c = "#" -> 35
    [] c = "*" -> 42
    [] IsDigit(c) -> 48 + DigitValue(c)
    [] c = BACKTICK -> 96
    [] c = "a" -> 97
    [] c = "f" -> 102
    [] c = "j" -> 106
    [] c = "s" -> 115
    [] c = "t" -> 116
    [] c = "u" -> 117
    [] c = "v" -> 118
    [] c = "x" -> 120

RECURSIVE compareText(_, _)
\* The order of Array.prototype.sort() without comparator: by code units.
\* Negative, zero or positive as a is before, equal to or after b.
compareText(a, b) ==
  IF a = <<>> /\ b = <<>> THEN 0
  ELSE IF a = <<>> THEN -1
  ELSE IF b = <<>> THEN 1
  ELSE IF CharCode(Head(a)) # CharCode(Head(b)) THEN CharCode(Head(a)) - CharCode(Head(b))
  ELSE compareText(Tail(a), Tail(b))

RECURSIVE DigitRun(_)
\* The digits a text starts with.
DigitRun(s) == IF s # <<>> /\ IsDigit(Head(s)) THEN <<Head(s)>> \o DigitRun(Tail(s)) ELSE <<>>

RECURSIVE NumberOf(_, _)
\* The number a run of digits writes.
NumberOf(digits, n) ==
  IF digits = <<>> THEN n ELSE NumberOf(Tail(digits), 10 * n + DigitValue(Head(digits)))

RECURSIVE naturalCompare(_, _)
\* Natural order: runs of digits are compared as numbers, the rest by character.
naturalCompare(a, b) ==
  IF a = <<>> /\ b = <<>> THEN 0
  ELSE IF a = <<>> THEN -1
  ELSE IF b = <<>> THEN 1
  ELSE IF IsDigit(Head(a)) /\ IsDigit(Head(b)) THEN
    LET ra == DigitRun(a)
        rb == DigitRun(b)
    IN  IF NumberOf(ra, 0) # NumberOf(rb, 0) THEN NumberOf(ra, 0) - NumberOf(rb, 0)
        ELSE naturalCompare(SubSeq(a, Len(ra) + 1, Len(a)), SubSeq(b, Len(rb) + 1, Len(b)))
  ELSE IF CharCode(Head(a)) # CharCode(Head(b)) THEN CharCode(Head(a)) - CharCode(Head(b))
  ELSE naturalCompare(Tail(a), Tail(b))

RECURSIVE sortTestNames(_)
\* Line 129: Array.from(keys).sort().
sortTestNames(names) ==
  IF names = {} THEN <<>>
  ELSE LET first == CHOOSE x \in names : \A y \in names : compareText(x, y) <= 0
       IN  <<first>> \o sortTestNames(names \ {first})

RECURSIVE sortEntryNamesByText(_)
\* Mutant: the entry names are sorted as the test names are.
sortEntryNamesByText(names) ==
  IF names = {} THEN <<>>
  ELSE LET first == CHOOSE x \in names : \A y \in names : compareText(x, y) <= 0
       IN  <<first>> \o sortEntryNamesByText(names \ {first})

RECURSIVE sortEntryNames(_)
\* Line 136: Array.from(keys).sort(naturalCompare).
sortEntryNames(names) ==
  IF names = {} THEN <<>>
  ELSE LET first == CHOOSE x \in names : \A y \in names : naturalCompare(x, y) <= 0
       IN  <<first>> \o sortEntryNames(names \ {first})

\* Mutant: every entry is kept.
droppedNever(entry) == FALSE

\* Line 121: the entries that are left out.
dropped(entry) == ~entry.used

RECURSIVE groupEntries(_, _)
\* Lines 116-126: testNameToEntries, filled from the entries in the order in
\* which they are iterated.
groupEntries(entries, testNameToEntries) ==
  IF entries = <<>> THEN testNameToEntries
  ELSE
    LET entry == Head(entries) IN
    IF dropped(entry) THEN groupEntries(Tail(entries), testNameToEntries)
    ELSE
      LET entriesByTestName ==
            IF entry.testName \in DOMAIN testNameToEntries
            THEN testNameToEntries[entry.testName]
            ELSE EmptyEntries
      IN  groupEntries(Tail(entries),
                       MapSet(testNameToEntries, entry.testName,
                              MapSet(entriesByTestName, entry.entryName, entry)))

\* Lines 103-107.
pushNewline(lines) ==
  IF lines # <<>> /\ lines[Len(lines)] = <<>> THEN lines ELSE Append(lines, <<>>)

Fence == <<BACKTICK, BACKTICK, BACKTICK>>

\* Mutant: the heading of an entry named "0" is always left out.
skipHeadingOfEveryAnonymous(snapshotName, count) == snapshotName = <<"0">>

\* Line 145: count is entryNames.length.
skipHeading(snapshotName, count) == snapshotName = <<"0">> /\ count = 1

RECURSIVE buildEntryLines(_, _, _, _)
\* Lines 138-156: the lines of the entries of a test, entryNames being the
\* names still to be written and count the number of entries of the test.
buildEntryLines(lines, entries, entryNames, count) ==
  IF entryNames = <<>> THEN lines
  ELSE
    LET snapshotName == Head(entryNames)
        entry == entries[snapshotName]
        language == IF entry.language = NoLanguage THEN <<>> ELSE entry.language
        l1 == IF skipHeading(snapshotName, count) THEN lines
              ELSE Append(lines, <<"#", "#", "#", " ">> \o Tick(snapshotName))
        l2 == pushNewline(l1) \o << Fence \o language, entry.value, Fence >>
    IN  buildEntryLines(pushNewline(l2), entries, Tail(entryNames), count)

RECURSIVE buildTestLines(_, _, _)
\* Lines 131-157: the lines of the tests whose names are still to be written.
buildTestLines(lines, testNameToEntries, testNames) ==
  IF testNames = <<>> THEN lines
  ELSE
    LET testName == Head(testNames)
        entries == testNameToEntries[testName]
        entryNames == sortEntryNames(DOMAIN entries)
        l1 == pushNewline(Append(lines, <<"#", "#", " ">> \o Tick(testName)))
    IN  buildTestLines(buildEntryLines(l1, entries, entryNames, Len(entryNames)),
                       testNameToEntries, Tail(testNames))

RECURSIVE Join(_)
\* Array.prototype.join("\n")
Join(lines) ==
  IF lines = <<>> THEN <<>>
  ELSE IF Len(lines) = 1 THEN lines[1]
  ELSE lines[1] \o <<NEWLINE>> \o Join(Tail(lines))

\* Lines 111-113: the notice, shortened to its first words and the path it names.
Notice(relative) ==
  <<"*", "*", "D", "O", " ", "N", "O", "T", " ", "M", "O", "D", "I", "F", "Y",
    "*", "*", " ">> \o relative

\* The text of the snapshot file of the entries, iterated in the order of the
\* sequence; basename and relative are the texts of the two paths.
buildSnapshot(entries, basename, relative) ==
  LET l1 == pushNewline(<< <<"#", " ">> \o Tick(basename) >>)
      l2 == pushNewline(Append(l1, Notice(relative)))
      testNameToEntries == groupEntries(entries, EmptyEntries)
      testNames == sortTestNames(DOMAIN testNameToEntries)
  IN  Join(buildTestLines(l2, testNameToEntries, testNames))

\* ------------------------------------------------------ the snapshot parser
\* The lines of a text: what is between its newline characters.
Split(text) ==
  LET breaks == {i \in 1 .. Len(text) : text[i] = NEWLINE}
      n == Cardinality(breaks)
      break(k) == CHOOSE i \in breaks : Cardinality({j \in breaks : j < i}) = k - 1
  IN  [k \in 1 .. n + 1 |->
         SubSeq(text, IF k = 1 THEN 1 ELSE break(k - 1) + 1,
                      IF k = n + 1 THEN Len(text) ELSE break(k) - 1)]

StartsWith(line, prefix) ==
  Len(line) >= Len(prefix) /\ SubSeq(line, 1, Len(prefix)) = prefix

RECURSIVE HeadingLevel(_)
\* The number of # characters a line starts with.
HeadingLevel(line) ==
  IF line # <<>> /\ Head(line) = "#" THEN 1 + HeadingLevel(Tail(line)) ELSE 0

RECURSIVE FenceEnd(_, _)
\* The index of the first line from index i on that closes a code block, or
\* the number of lines plus one.
FenceEnd(lines, i) ==
  IF i > Len(lines) \/ lines[i] = Fence THEN i ELSE FenceEnd(lines, i + 1)

RECURSIVE parseLines(_)
\* The nodes of the lines of a snapshot file: headings and code blocks; any
\* other line is no node.
parseLines(lines) ==
  IF lines = <<>> THEN <<>>
  ELSE
    LET line == Head(lines) IN
    IF StartsWith(line, Fence) THEN
      LET tag == SubSeq(line, Len(Fence) + 1, Len(line))
          end == FenceEnd(lines, 2)
      IN  << CodeBlock(IF tag = <<>> THEN NoLanguage ELSE tag,
                       Join(SubSeq(lines, 2, end - 1))) >>
            \o parseLines(SubSeq(lines, end + 1, Len(lines)))
    ELSE IF HeadingLevel(line) > 0 THEN
      << Heading(HeadingLevel(line),
                 Trim(SubSeq(line, HeadingLevel(line) + 1, Len(line)))) >>
        \o parseLines(Tail(lines))
    ELSE parseLines(Tail(lines))

\* parseSnapshot(createSnapshotParser({path, input})).
parseSnapshot(input) == parseLines(Split(input))

\* A call frame: lineNumber and columnNumber, each a number or undefined.
CallFrame(hasLine, line, hasColumn, column) ==
  [hasLine |-> hasLine, lineNumber |-> line,
   hasColumn |-> hasColumn, columnNumber |-> column]

InlineSnapshotUpdate(line, column, snapshot) ==
  [line |-> line, column |-> column, snapshot |-> snapshot]

\* ------------------------------------------------------------------ state
VARIABLES
  options,                \* runner.globalOptions and runner.options
  disk,                   \* the file system: path -> file
  snapshots,              \* this.snapshots: path -> index into records, or 0
  records,                \* the Snapshot objects created so far
  fileLocker,             \* this.fileLocker: the paths whose lock is held
  inlineSnapshotsUpdates, \* this.inlineSnapshotsUpdates
  tasks,                  \* the get() calls: where each stands, its locals, its result
  ret,                    \* the last testInlineSnapshot() call and what it returned
  readCount,              \* history: readFileText calls made, per path
  written,                \* history: per path, the last entry set() wrote under a key
  setCalls,               \* history: set() calls made
  inlineCalls             \* history: testInlineSnapshot() calls made

vars ==
  <<options, disk, snapshots, records, fileLocker, inlineSnapshotsUpdates, tasks,
    ret, readCount, written, setCalls, inlineCalls>>

Tasks == 1 .. MaxCalls

Absent == [present |-> FALSE, value |-> <<>>]
Present(value) == [present |-> TRUE, value |-> value]

IdleTask ==
  [pc |-> "idle", testName |-> <<>>, entryName |-> <<>>,
   snapshotPath |-> defaultSnapshotPath, snapshot |-> 0, result |-> Absent]

NoRet == [op |-> "none"]

\* The calls made so far.
callsMade == Cardinality({i \in Tasks : tasks[i].pc # "idle"}) + setCalls + inlineCalls

Init ==
  /\ options \in [updateSnapshots : BOOLEAN, freezeSnapshots : BOOLEAN]
  /\ \E file \in {NoFile} \cup Files : disk = [p \in Paths |-> IF p = defaultSnapshotPath THEN file ELSE NoFile]
  /\ snapshots = [p \in Paths |-> 0]
  /\ records = <<>>
  /\ fileLocker = {}
  /\ inlineSnapshotsUpdates = <<>>
  /\ tasks = [i \in Tasks |-> IdleTask]
  /\ ret = NoRet
  /\ readCount = [p \in Paths |-> 0]
  /\ written = [p \in Paths |-> EmptyEntries]
  /\ setCalls = 0
  /\ inlineCalls = 0

\* ------------------------------------------------------------ file system
\* exists(path) and readFileText(path), once they resume.
exists(path) == disk[path].exists
readFileText(path) == disk[path].content

\* ----------------------------------------------------------- FilePathLocker
\* wrapLock(path, callback) runs the callback once no other callback holds the
\* lock of the path, and releases the lock when the callback returns or throws.
lockFree(path) == path \notin fileLocker
lockAcquired(path) == fileLocker \cup {path}
lockReleased(path) == fileLocker \ {path}

\* -------------------------------------------------------------------- get
\* Mutant: the load does not look for a Snapshot stored while it waited.
loadedSnapshotNone(path) == 0

\* Line 217: the lookup made once the lock of the path is held.
loadedSnapshot(path) == snapshots[path]

\* Mutant: update mode is not looked at.
forceUpdateNever == FALSE

\* Line 367: whether get() pretends that there is no entry.
forceUpdate == options.updateSnapshots

\* Mutant: the entry found is returned without being marked.
getEntryUnmarked(recs, task) ==
  IF task.snapshot = 0 THEN [records |-> recs, result |-> Absent]
  ELSE
    LET snapshot == recs[task.snapshot]
        recs1 == [recs EXCEPT ![task.snapshot].used = TRUE]
        key == buildEntriesKey(task.testName, task.entryName)
    IN  IF forceUpdate \/ key \notin DOMAIN snapshot.entries
        THEN [records |-> recs1, result |-> Absent]
        ELSE [records |-> recs1, result |-> Present(snapshot.entries[key].value)]

\* Lines 360-377 of get(), on the Snapshot it holds: the records and the result.
getEntry(recs, task) ==
  IF task.snapshot = 0 THEN [records |-> recs, result |-> Absent]
  ELSE
    LET snapshot == recs[task.snapshot]
        recs1 == [recs EXCEPT ![task.snapshot].used = TRUE]
        key == buildEntriesKey(task.testName, task.entryName)
    IN  IF forceUpdate THEN [records |-> recs1, result |-> Absent]
        ELSE IF key \notin DOMAIN snapshot.entries
        THEN [records |-> recs1, result |-> Absent]
        ELSE [records |-> [recs1 EXCEPT ![task.snapshot].entries[key].used = TRUE],
              result |-> Present(snapshot.entries[key].value)]

\* get() is called: it runs to its end when the path has a Snapshot, and else
\* to the await of exists() in loadSnapshot.
Get(i, testName, entryName, optionalFilename) ==
  LET snapshotPath == normalizeSnapshotPath(optionalFilename)
      task == [tasks[i] EXCEPT !.testName = testName, !.entryName = entryName,
                               !.snapshotPath = snapshotPath,
                               !.snapshot = snapshots[snapshotPath]]
      r == getEntry(records, task)
  IN  /\ callsMade < MaxCalls
      /\ tasks[i].pc = "idle"
      /\ \A j \in Tasks : j < i => tasks[j].pc # "idle"
      /\ IF task.snapshot # 0
         THEN /\ records' = r.records
              /\ tasks' = [tasks EXCEPT ![i] = [task EXCEPT !.pc = "done", !.result = r.result]]
         ELSE /\ records' = records
              /\ tasks' = [tasks EXCEPT ![i] = [task EXCEPT !.pc = "exists"]]
      /\ UNCHANGED <<ret, options, disk, snapshots, fileLocker, inlineSnapshotsUpdates,
                     readCount, written, setCalls, inlineCalls>>

\* Mutant: the load goes on to the read whether the file exists or not.
fileMissingNever(path) == FALSE

\* Line 210: the file of the path is not there.
fileMissing(path) == ~exists(path)

\* loadSnapshot resumes from exists(): no file, no Snapshot; else it asks for
\* the lock of the path.
LoadExists(i) ==
  /\ tasks[i].pc = "exists"
  /\ tasks' = [tasks EXCEPT ![i].pc =
                 IF fileMissing(tasks[i].snapshotPath) THEN "loaded" ELSE "lock"]
  /\ UNCHANGED <<ret, options, disk, snapshots, records, fileLocker, inlineSnapshotsUpdates,
                 readCount, written, setCalls, inlineCalls>>

\* The lock of the path is granted: the callback returns the Snapshot of the
\* path when there is one, and else calls readFileText and waits for it.
LoadLock(i) ==
  LET path == tasks[i].snapshotPath IN
  /\ tasks[i].pc = "lock"
  /\ lockFree(path)
  /\ IF loadedSnapshot(path) # 0
     THEN /\ tasks' = [tasks EXCEPT ![i].pc = "loaded",
                                    ![i].snapshot = loadedSnapshot(path)]
          /\ UNCHANGED <<fileLocker, readCount>>
     ELSE /\ tasks' = [tasks EXCEPT ![i].pc = "read"]
          /\ fileLocker' = lockAcquired(path)
          /\ readCount' = [readCount EXCEPT ![path] = @ + 1]
  /\ UNCHANGED <<ret, options, disk, snapshots, records, inlineSnapshotsUpdates,
                 written, setCalls, inlineCalls>>

\* Lines 229-235: where the new Snapshot is put once the file is read.
storeLoaded(path, id) == [snapshots EXCEPT ![path] = id]

\* readFileText resumes: the file is parsed, a new Snapshot is stored for the
\* path and filled from the nodes; the lock is released.
LoadRead(i) ==
  LET path == tasks[i].snapshotPath
      content == readFileText(path)
      id == Len(records) + 1
      r == loadEntries(content, EmptyEntries)
  IN  /\ tasks[i].pc = "read"
      /\ snapshots' = storeLoaded(path, id)
      /\ records' = Append(records, Snapshot(TRUE, FALSE, content, r.entries))
      /\ tasks' = [tasks EXCEPT ![i].pc = IF r.threw THEN "threw" ELSE "loaded",
                                ![i].snapshot = IF r.threw THEN 0 ELSE id]
      /\ fileLocker' = lockReleased(path)
      /\ UNCHANGED <<ret, options, disk, inlineSnapshotsUpdates, readCount, written,
                     setCalls, inlineCalls>>

\* get() resumes from loadSnapshot.
GetResume(i) ==
  LET r == getEntry(records, tasks[i]) IN
  /\ tasks[i].pc = "loaded"
  /\ records' = r.records
  /\ tasks' = [tasks EXCEPT ![i].pc = "done", ![i].result = r.result]
  /\ UNCHANGED <<ret, options, disk, snapshots, fileLocker, inlineSnapshotsUpdates,
                 readCount, written, setCalls, inlineCalls>>

\* -------------------------------------------------------------------- set
Set(testName, entryName, value, language, optionalFilename) ==
  LET snapshotPath == normalizeSnapshotPath(optionalFilename)
      create == snapshots[snapshotPath] = 0
      id == IF create THEN Len(records) + 1 ELSE snapshots[snapshotPath]
      recs == IF create THEN Append(records, Snapshot(FALSE, TRUE, <<>>, EmptyEntries))
              ELSE records
      key == buildEntriesKey(testName, entryName)
      entry == SnapshotEntry(testName, entryName, language, value, TRUE)
  IN  /\ callsMade < MaxCalls
      /\ setCalls' = setCalls + 1
      /\ snapshots' = [snapshots EXCEPT ![snapshotPath] = id]
      /\ records' = [recs EXCEPT ![id].entries = MapSet(@, key, entry)]
      /\ written' = [written EXCEPT ![snapshotPath] = MapSet(@, key, entry)]
      /\ UNCHANGED <<ret, options, disk, fileLocker, inlineSnapshotsUpdates, tasks,
                     readCount, inlineCalls>>

\* ----------------------------------------------------- testInlineSnapshot
\* Mutant: freeze mode makes a mismatch a plain NO_MATCH.
shouldSaveUnlessFrozen(expected) ==
  (options.updateSnapshots \/ expected.type = "undefined") /\ ~options.freezeSnapshots

\* Line 317.
shouldSave(expected) == options.updateSnapshots \/ expected.type = "undefined"

\* Mutant: only the line of the call frame is looked at.
noLine(callFrame) == ~callFrame.hasLine

\* Line 320.
noLineOrColumn(callFrame) == ~callFrame.hasLine \/ ~callFrame.hasColumn

\* Mutant: freeze mode is not looked at.
mayRecordAlways == TRUE

\* Line 324.
mayRecord == ~options.freezeSnapshots

\* Mutant: the formatted text is recorded, whatever the received value is.
inlineSnapshotFormatted(received, receivedFormat) == JsString(receivedFormat)

\* Lines 325-333: the snapshot of the update.
inlineSnapshot(received, receivedFormat) ==
  IF received.type \in {"string", "number", "boolean", "null"}
  THEN received
  ELSE JsString(receivedFormat)

\* Mutant: the update is put in front of the log.
unshiftUpdate(updates, update) == <<update>> \o updates

\* Lines 335-339.
pushUpdate(updates, update) == Append(updates, update)

\* The call on the log `updates`: its status, or that it threw, and the log after it.
testInlineSnapshot(updates, callFrame, received, expected) ==
  LET receivedFormat == stringOrPrettyFormat(received)
      expectedFormat == stringOrPrettyFormat(expected)
  IN  IF receivedFormat = expectedFormat
      THEN [threw |-> FALSE, status |-> "MATCH", updates |-> updates]
      ELSE IF shouldSave(expected)
      THEN IF noLineOrColumn(callFrame)
           THEN [threw |-> TRUE, status |-> "", updates |-> updates]
           ELSE [threw |-> FALSE, status |-> "UPDATE",
                 updates |->
                   IF mayRecord
                   THEN pushUpdate(updates,
                          InlineSnapshotUpdate(callFrame.lineNumber, callFrame.columnNumber,
                                               inlineSnapshot(received, receivedFormat)))
                   ELSE updates]
      ELSE [threw |-> FALSE, status |-> "NO_MATCH", updates |-> updates]

CallFrames ==
  { CallFrame(TRUE, 1, TRUE, 0), CallFrame(TRUE, 2, TRUE, 4),
    CallFrame(FALSE, 0, TRUE, 4), CallFrame(TRUE, 2, FALSE, 0) }
ReceivedValues ==
  { JsString("abc"), JsString("xyz"), JsNumber(1), JsBoolean(TRUE), JsNull,
    JsUndefined, JsObject("Object {}") }
ExpectedValues ==
  { JsUndefined, JsString("abc"), JsString("1"), JsNumber(1), JsNull }

InlineCall(callFrame, received, expected) ==
  [callFrame |-> callFrame, received |-> received, expected |-> expected]

\* The calls of the store's specification: a match, a mismatch with an expected
\* value, a call without expected value, a call frame without line.
InlineCalls ==
  { InlineCall(CallFrame(TRUE, 1, TRUE, 0), JsNumber(1), JsString("1")),
    InlineCall(CallFrame(TRUE, 1, TRUE, 0), JsString("xyz"), JsString("abc")),
    InlineCall(CallFrame(TRUE, 2, TRUE, 4), JsObject("Object {}"), JsUndefined),
    InlineCall(CallFrame(FALSE, 0, TRUE, 4), JsString("xyz"), JsUndefined) }

TestInlineSnapshot(callFrame, received, expected) ==
  LET r == testInlineSnapshot(inlineSnapshotsUpdates, callFrame, received, expected) IN
  /\ callsMade < MaxCalls
  /\ inlineCalls' = inlineCalls + 1
  /\ inlineSnapshotsUpdates' = r.updates
  /\ ret' = [op |-> "testInlineSnapshot", callFrame |-> callFrame,
             received |-> received, expected |-> expected,
             threw |-> r.threw, status |-> r.status]
  /\ UNCHANGED <<options, disk, snapshots, records, fileLocker, tasks, readCount,
                 written, setCalls>>

\* --------------------------------------------------- getModifiedSnapshots
\* Mutant: no entry is deleted from the copy.
unusedEntryNever(entry) == FALSE

\* Line 171: the entries deleted from the copy.
unusedEntry(entry) == ~entry.used

\* Mutant: the entries of the Snapshot itself are filtered, not a copy.
filterEntriesInPlace(entries) ==
  LET filtered == [k \in {x \in DOMAIN entries : ~unusedEntry(entries[x])} |-> entries[k]]
  IN  [filtered |-> filtered, source |-> filtered]

\* Lines 169-174: the filtered entries, and the entries of the Snapshot after
\* the filtering (it is a copy that is filtered).
filterEntries(entries) ==
  [filtered |-> [k \in {x \in DOMAIN entries : ~unusedEntry(entries[x])} |-> entries[k]],
   source |-> entries]

\* Mutant: the partial runner is the one that filters.
filteringWhenPartial(partial) == partial

\* Line 168: whether the entries are filtered.
filtering(partial) == ~partial

\* The mapping returned, and the records after the call.
getModifiedSnapshots(partial, snaps, recs) ==
  LET loaded == {p \in Paths : snaps[p] # 0}
      f(id) == IF filtering(partial) THEN filterEntries(recs[id].entries)
               ELSE [filtered |-> recs[id].entries, source |-> recs[id].entries]
  IN  [value |-> [p \in loaded |-> [recs[snaps[p]] EXCEPT !.entries = f(snaps[p]).filtered]],
       records |-> [id \in DOMAIN recs |->
                      IF \E p \in loaded : snaps[p] = id
                      THEN [recs[id] EXCEPT !.entries = f(id).source]
                      ELSE recs[id]]]

\* runner.options.partial is read when the call is made.
GetModifiedSnapshots(partial) ==
  LET r == getModifiedSnapshots(partial, snapshots, records) IN
  /\ records' = r.records
  /\ UNCHANGED <<ret, options, disk, snapshots, fileLocker, inlineSnapshotsUpdates, tasks,
                 readCount, written, setCalls, inlineCalls>>

\* ----------------------------------------------------------- specification
Next ==
  \/ \E i \in Tasks, testName \in TestNames, entryName \in EntryNames,
        optionalFilename \in OptionalFilenames :
       Get(i, testName, entryName, optionalFilename)
  \/ \E i \in Tasks : LoadExists(i)
  \/ \E i \in Tasks : LoadLock(i)
  \/ \E i \in Tasks : LoadRead(i)
  \/ \E i \in Tasks : GetResume(i)
  \/ \E testName \in TestNames, entryName \in EntryNames, value \in Values,
        language \in Languages, optionalFilename \in OptionalFilenames :
       Set(testName, entryName, value, language, optionalFilename)
  \/ \E call \in InlineCalls :
       TestInlineSnapshot(call.callFrame, call.received, call.expected)
  \/ \E partial \in BOOLEAN : GetModifiedSnapshots(partial)

Spec == Init /\ [][Next]_vars

\* The inline matcher alone, on every call frame and value of the sets above.
MaxInline == 2

InitInline == Init /\ disk = [p \in Paths |-> NoFile]

NextInline ==
  \E callFrame \in CallFrames, received \in ReceivedValues, expected \in ExpectedValues :
    /\ inlineCalls < MaxInline
    /\ TestInlineSnapshot(callFrame, received, expected)

SpecInline == InitInline /\ [][NextInline]_vars

\* ------------------------------------------- the writer and the next run
\* The build and reload of one Snapshot: the Snapshot of the default path holds
\* entries written in a run, buildSnapshot is called on them in any iteration
\* order and the file is written; the manager of the next run loads the file.
MaxEntries == 4

T_u == <<"u">>
T_t_ == <<"t", " ">>
E_1 == <<"1">>
E_2 == <<"2">>
E_10 == <<"1", "0">>
E_x == <<"x">>

BuildEntries ==
  { SnapshotEntry(T_t, E_0, NoLanguage, V_1, TRUE),
    SnapshotEntry(T_t, E_0, NoLanguage, V_1, FALSE),
    SnapshotEntry(T_t, E_1, NoLanguage, V_1, TRUE),
    SnapshotEntry(T_t, E_2, L_js, V_2, TRUE),
    SnapshotEntry(T_t, E_10, NoLanguage, V_1, TRUE),
    SnapshotEntry(T_u, E_0, L_js, V_2, TRUE),
    SnapshotEntry(T_u, E_x, NoLanguage, V_1, TRUE),
    SnapshotEntry(T_u, E_1, NoLanguage, V_1, FALSE),
    SnapshotEntry(T_t_, E_0, NoLanguage, V_2, TRUE) }

\* The entries a Snapshot can hold: one per key.
EntryMaps ==
  { [k \in {buildEntriesKey(e.testName, e.entryName) : e \in E} |->
       CHOOSE e \in E : buildEntriesKey(e.testName, e.entryName) = k] :
    E \in {S \in SUBSET BuildEntries :
             /\ Cardinality(S) <= MaxEntries
             /\ \A e1, e2 \in S :
                  buildEntriesKey(e1.testName, e1.entryName)
                    = buildEntriesKey(e2.testName, e2.entryName) => e1 = e2} }

\* The orders in which the entries of a Map can be iterated.
IterationOrders(entries) ==
  LET n == Cardinality(DOMAIN entries) IN
  { [i \in 1 .. n |-> entries[keys[i]]] :
    keys \in {s \in [1 .. n -> DOMAIN entries] : \A k \in DOMAIN entries : \E i \in 1 .. n : s[i] = k} }

Basename == <<"f">>

InitBuild ==
  /\ options = [updateSnapshots |-> FALSE, freezeSnapshots |-> FALSE]
  /\ disk = [p \in Paths |-> NoFile]
  /\ snapshots = [p \in Paths |-> IF p = defaultSnapshotPath THEN 1 ELSE 0]
  /\ \E entries \in EntryMaps : records = <<Snapshot(FALSE, TRUE, <<>>, entries)>>
  /\ fileLocker = {}
  /\ inlineSnapshotsUpdates = <<>>
  /\ tasks = [i \in Tasks |-> IdleTask]
  /\ ret = NoRet
  /\ readCount = [p \in Paths |-> 0]
  /\ written = [p \in Paths |-> EmptyEntries]
  /\ setCalls = 0
  /\ inlineCalls = 0

\* The writer calls buildSnapshot on the entries of the Snapshot, iterated in
\* the given order, and writes the text to the file of the path (a file is
\* kept as the nodes the parser makes of its text).
BuildSnapshot(entries) ==
  LET text == buildSnapshot(entries, Basename, Basename) IN
  /\ Len(records) = 1
  /\ ret' = [op |-> "buildSnapshot", text |-> text]
  /\ disk' = [disk EXCEPT ![defaultSnapshotPath] = File(parseSnapshot(text))]
  /\ UNCHANGED <<options, snapshots, records, fileLocker, inlineSnapshotsUpdates, tasks,
                 readCount, written, setCalls, inlineCalls>>

\* The manager of the next run, which starts with no Snapshot for the path
\* (line 81), loads the file: lines 222-297 on the nodes of the file.
Reload ==
  LET path == defaultSnapshotPath
      content == readFileText(path)
      id == Len(records) + 1
      r == loadEntries(content, EmptyEntries)
  IN  /\ Len(records) = 1
      /\ exists(path)
      /\ snapshots' = storeLoaded(path, id)
      /\ records' = Append(records, Snapshot(TRUE, FALSE, content, r.entries))
      /\ readCount' = [readCount EXCEPT ![path] = @ + 1]
      /\ UNCHANGED <<options, disk, fileLocker, inlineSnapshotsUpdates, tasks, ret,
                     written, setCalls, inlineCalls>>

NextBuild ==
  \/ \E entries \in IterationOrders(records[1].entries) : BuildSnapshot(entries)
  \/ Reload

SpecBuild == InitBuild /\ [][NextBuild]_vars

\* ------------------------------------------------- the load of any file
\* One get() for the default path, whose file is any sequence of at most
\* MaxNodes nodes.
MaxNodes == 4

ParseNodes ==
  { Heading(1, Tick(<<"f">>)), Heading(2, Tick(T_t)), Heading(3, Tick(E_a0)),
    CodeBlock(NoLanguage, V_1) }

NodeSequences == UNION { [1 .. n -> ParseNodes] : n \in 0 .. MaxNodes }

InitParse ==
  /\ options = [updateSnapshots |-> FALSE, freezeSnapshots |-> FALSE]
  /\ \E nodes \in NodeSequences :
       disk = [p \in Paths |-> IF p = defaultSnapshotPath THEN File(nodes) ELSE NoFile]
  /\ snapshots = [p \in Paths |-> 0]
  /\ records = <<>>
  /\ fileLocker = {}
  /\ inlineSnapshotsUpdates = <<>>
  /\ tasks = [i \in Tasks |-> IdleTask]
  /\ ret = NoRet
  /\ readCount = [p \in Paths |-> 0]
  /\ written = [p \in Paths |-> EmptyEntries]
  /\ setCalls = 0
  /\ inlineCalls = 0

NextParse ==
  \/ \E entryName \in EntryNames : Get(1, T_t, entryName, NoFilename)
  \/ LoadExists(1)
  \/ LoadLock(1)
  \/ LoadRead(1)
  \/ GetResume(1)

SpecParse == InitParse /\ [][NextParse]_vars

\* ------------------------------------------- a file on a path given by name
\* get() and set() when the file is the one of a path given by
\* optionalFilename, which init() does not load.
InitOther ==
  /\ options \in [updateSnapshots : BOOLEAN, freezeSnapshots : {FALSE}]
  /\ disk = [p \in Paths |-> IF p = otherSnapshotPath THEN File(FileTwoTests) ELSE NoFile]
  /\ snapshots = [p \in Paths |-> 0]
  /\ records = <<>>
  /\ fileLocker = {}
  /\ inlineSnapshotsUpdates = <<>>
  /\ tasks = [i \in Tasks |-> IdleTask]
  /\ ret = NoRet
  /\ readCount = [p \in Paths |-> 0]
  /\ written = [p \in Paths |-> EmptyEntries]
  /\ setCalls = 0
  /\ inlineCalls = 0

NextOther ==
  \/ \E i \in Tasks, testName \in TestNames, entryName \in EntryNames,
        optionalFilename \in OptionalFilenames :
       Get(i, testName, entryName, optionalFilename)
  \/ \E i \in Tasks : LoadExists(i)
  \/ \E i \in Tasks : LoadLock(i)
  \/ \E i \in Tasks : LoadRead(i)
  \/ \E i \in Tasks : GetResume(i)
  \/ \E testName \in TestNames, entryName \in EntryNames, value \in Values,
        language \in Languages, optionalFilename \in OptionalFilenames :
       Set(testName, entryName, value, language, optionalFilename)

SpecOther == InitOther /\ [][NextOther]_vars

\* ---------------------------------------------- names with the key separator
\* get() and set() on test and entry names that contain "#", no file on disk,
\* update mode off.
KeyTestNames == {T_t, T_ta}

InitKeys ==
  /\ Init
  /\ disk = [p \in Paths |-> NoFile]
  /\ ~options.updateSnapshots /\ ~options.freezeSnapshots

NextKeys ==
  \/ \E i \in Tasks, testName \in KeyTestNames, entryName \in EntryNames,
        optionalFilename \in OptionalFilenames :
       Get(i, testName, entryName, optionalFilename)
  \/ \E i \in Tasks : LoadExists(i)
  \/ \E i \in Tasks : GetResume(i)
  \/ \E testName \in KeyTestNames, entryName \in EntryNames, value \in Values,
        language \in Languages, optionalFilename \in OptionalFilenames :
       Set(testName, entryName, value, language, optionalFilename)

SpecKeys == InitKeys /\ [][NextKeys]_vars

\* ------------------------------------------------------------------ claims
\* What the claims say of a testInlineSnapshot call r (its arguments and outcome).
FormatsEqual(r) == stringOrPrettyFormat(r.received) = stringOrPrettyFormat(r.expected)
ExpectedSupplied(r) == r.expected.type # "undefined"
ValidLocation(r) == r.callFrame.hasLine /\ r.callFrame.hasColumn
UpdateWorthy(r) == ~FormatsEqual(r) /\ (options.updateSnapshots \/ ~ExpectedSupplied(r))
IsInlineCall(r) == r.op = "testInlineSnapshot"
\* The step is a testInlineSnapshot call.
InlineStep == inlineCalls' = inlineCalls + 1

\* C7: for a valid location, testInlineSnapshot returns MATCH iff the formatted
\* received and expected texts are equal; otherwise UPDATE iff update mode is
\* active or expected was not supplied, whatever freeze mode is; otherwise NO_MATCH.
C7_StatusTable ==
  IsInlineCall(ret) /\ ValidLocation(ret) =>
    /\ ~ret.threw
    /\ ret.status = "MATCH" <=> FormatsEqual(ret)
    /\ ret.status = "UPDATE" <=>
         ~FormatsEqual(ret) /\ (options.updateSnapshots \/ ~ExpectedSupplied(ret))
    /\ ret.status = "NO_MATCH" <=>
         ~FormatsEqual(ret) /\ ~options.updateSnapshots /\ ExpectedSupplied(ret)

\* An update-worthy mismatch returned UPDATE in freeze mode, update mode off.
C7_Witness ==
  /\ IsInlineCall(ret) /\ ValidLocation(ret)
  /\ options.freezeSnapshots /\ ~options.updateSnapshots
  /\ ret.status = "UPDATE"
  /\ ret.received = JsNumber(1)

\* The snapshot the claims give an update: the raw received value when it is a
\* string, number, boolean or null, the formatted text otherwise.
ClaimedSnapshot(received) ==
  IF received.type \in {"string", "number", "boolean", "null"}
  THEN received
  ELSE JsString(stringOrPrettyFormat(received))

\* C8: a call that is an update-worthy mismatch (valid location) with freeze
\* mode off returns UPDATE and appends exactly one element at the end of the
\* log: the line and column of the call and the raw received value when it is a
\* string, number, boolean or null, the formatted text otherwise.
C8_InlineUpdate ==
  [][ InlineStep /\ UpdateWorthy(ret') /\ ValidLocation(ret') /\ ~options.freezeSnapshots
      => /\ ret'.status = "UPDATE"
         /\ inlineSnapshotsUpdates' =
              Append(inlineSnapshotsUpdates,
                     [line |-> ret'.callFrame.lineNumber,
                      column |-> ret'.callFrame.columnNumber,
                      snapshot |-> ClaimedSnapshot(ret'.received)]) ]_vars

\* A second update was appended behind a first one; the first carries a raw
\* number, the second the formatted text of an object.
C8_Witness ==
  /\ ~options.freezeSnapshots
  /\ IsInlineCall(ret) /\ ret.status = "UPDATE"
  /\ Len(inlineSnapshotsUpdates) = 2
  /\ inlineSnapshotsUpdates[1].snapshot = JsNumber(1)
  /\ inlineSnapshotsUpdates[2] =
       [line |-> 2, column |-> 4, snapshot |-> JsString("Object {}")]
  /\ ret.received = JsObject("Object {}")

\* C9: in freeze mode no testInlineSnapshot call changes the log, and a call
\* that is an update-worthy mismatch (valid location) still returns UPDATE.
C9_FreezeSuppressesWrite ==
  [][ options.freezeSnapshots
      => /\ inlineSnapshotsUpdates' = inlineSnapshotsUpdates
         /\ InlineStep /\ UpdateWorthy(ret') /\ ValidLocation(ret')
              => ret'.status = "UPDATE" ]_vars

\* Two update-worthy calls in freeze mode: UPDATE, and the log is still empty.
C9_Witness ==
  /\ options.freezeSnapshots
  /\ inlineCalls = 2
  /\ IsInlineCall(ret) /\ UpdateWorthy(ret) /\ ValidLocation(ret)
  /\ ret.status = "UPDATE"
  /\ inlineSnapshotsUpdates = <<>>

\* C10: the log changes only in a testInlineSnapshot call that returns UPDATE
\* with freeze mode off, and then by one element appended at its end; no
\* other call or step (MATCH, NO_MATCH, get, set, load, getModifiedSnapshots)
\* changes it.
C10_LogAppendOnly ==
  [][ \/ inlineSnapshotsUpdates' = inlineSnapshotsUpdates
      \/ /\ InlineStep
         /\ ret'.status = "UPDATE"
         /\ ~options.freezeSnapshots
         /\ Len(inlineSnapshotsUpdates') = Len(inlineSnapshotsUpdates) + 1
         /\ SubSeq(inlineSnapshotsUpdates', 1, Len(inlineSnapshotsUpdates))
              = inlineSnapshotsUpdates ]_vars

\* Two different updates are in the log, and a set() and a load have run.
C10_Witness ==
  /\ Len(inlineSnapshotsUpdates) = 2
  /\ inlineSnapshotsUpdates[1] # inlineSnapshotsUpdates[2]
  /\ \E p \in Paths : snapshots[p] # 0

\* ---------------------------------------------------------- store claims
\* The Snapshot stored for a path (the path has one).
SnapshotOf(p) == records[snapshots[p]]
Loaded == {p \in Paths : snapshots[p] # 0}
\* Every get() call made has returned (none is suspended, none has thrown).
AllReturned == \A i \in Tasks : tasks[i].pc \in {"idle", "done"}
\* The file of the path has an entry heading that no code block follows.
Malformed(p) == disk[p].exists /\ loadEntries(disk[p].content, EmptyEntries).threw

\* C1: when all calls have returned, every entry written by set() (the last
\* one written under its key) is in the Snapshot stored for its path, with
\* its value and used = true, and so is in getModifiedSnapshots().
C1_NoLostUpdates ==
  AllReturned =>
    \A p \in Paths : \A k \in DOMAIN written[p] :
      /\ snapshots[p] # 0
      /\ k \in DOMAIN SnapshotOf(p).entries
      /\ SnapshotOf(p).entries[k] = written[p][k]
      /\ \A partial \in BOOLEAN :
           LET m == getModifiedSnapshots(partial, snapshots, records).value
           IN  p \in DOMAIN m /\ k \in DOMAIN m[p].entries

\* C2: a path is read at most once, and exactly once when its file exists, no
\* set() created its Snapshot and a get() for it has returned or thrown.
C2_SingleFlight ==
  \A p \in Paths :
    /\ readCount[p] <= 1
    /\ ( /\ disk[p].exists
         /\ written[p] = EmptyEntries
         /\ \E i \in Tasks : tasks[i].snapshotPath = p /\ tasks[i].pc \in {"done", "threw"} )
       => readCount[p] = 1

\* Three get() calls found the path unresolved; the first has read the file
\* and returned, the other two still wait for the lock.
C2_Witness ==
  /\ disk[defaultSnapshotPath].exists
  /\ \A i \in Tasks : tasks[i].snapshotPath = defaultSnapshotPath
  /\ tasks[1].pc = "done" /\ tasks[1].result.present
  /\ tasks[2].pc = "lock" /\ tasks[3].pc = "lock"
  /\ readCount[defaultSnapshotPath] = 1

\* C3: the Snapshot stored for a path is never replaced by another one, and
\* the Snapshot a get() call holds is the one stored for its path.
C3_OneRecordPerPath ==
  [][ /\ \A p \in Paths : snapshots[p] # 0 => snapshots'[p] = snapshots[p]
      /\ \A i \in Tasks : tasks'[i].snapshot # 0 =>
           tasks'[i].snapshot = snapshots'[tasks'[i].snapshotPath] ]_vars

\* C4: no Snapshot built from a malformed file is stored for its path, and no
\* get() returns from one.
C4_NoPartialRecord ==
  /\ \A p \in Loaded : SnapshotOf(p).existsOnDisk => ~Malformed(p)
  /\ \A i \in Tasks :
       tasks[i].pc = "done" /\ tasks[i].snapshot # 0 /\ Malformed(tasks[i].snapshotPath)
         => ~records[tasks[i].snapshot].existsOnDisk

Returns(i) == tasks[i].pc # "done" /\ tasks'[i].pc = "done"

\* C6: in update mode a get() call returns absent and changes the entries of
\* no Snapshot; the Snapshot it resolved, if any, is marked used.
C6_UpdateModeOverride ==
  [][ options.updateSnapshots =>
        \A i \in Tasks : Returns(i) =>
          /\ tasks'[i].result = Absent
          /\ \A id \in DOMAIN records : records'[id].entries = records[id].entries
          /\ tasks'[i].snapshot # 0 => records'[tasks'[i].snapshot].used ]_vars

\* In update mode get() has returned absent for an entry the loaded Snapshot
\* holds; the entry is not marked used, the Snapshot is.
C6_Witness ==
  /\ options.updateSnapshots
  /\ \E i \in Tasks :
       /\ tasks[i].pc = "done" /\ tasks[i].snapshot # 0
       /\ tasks[i].result = Absent
       /\ LET snapshot == records[tasks[i].snapshot]
              key == buildEntriesKey(tasks[i].testName, tasks[i].entryName)
          IN  /\ snapshot.existsOnDisk /\ snapshot.used
              /\ key \in DOMAIN snapshot.entries
              /\ ~snapshot.entries[key].used

\* C11: a testInlineSnapshot call that is an update-worthy mismatch and whose
\* call frame lacks the line or the column throws, returns no status and
\* leaves the log as it was, in freeze mode as well as outside it.
C11_InvalidLocation ==
  [][ InlineStep /\ UpdateWorthy(ret') /\ ~ValidLocation(ret')
      => /\ ret'.threw
         /\ ret'.status \notin {"MATCH", "UPDATE", "NO_MATCH"}
         /\ inlineSnapshotsUpdates' = inlineSnapshotsUpdates ]_vars

\* In freeze mode a call whose frame has a line and no column threw, after an
\* earlier call of the run; the log is empty.
C11_Witness ==
  /\ options.freezeSnapshots
  /\ inlineCalls = 2
  /\ IsInlineCall(ret) /\ UpdateWorthy(ret)
  /\ ret.callFrame.hasLine /\ ~ret.callFrame.hasColumn
  /\ ret.threw
  /\ inlineSnapshotsUpdates = <<>>

\* The path has no file and set() has written no entry for it.
NothingFor(p) == ~disk[p].exists /\ written[p] = EmptyEntries

\* C12: for a path with no file and no Snapshot created by set(), get()
\* returns absent, does not throw, and the path keeps having no Snapshot.
C12_MissingFile ==
  \A p \in Paths : NothingFor(p) =>
    /\ snapshots[p] = 0
    /\ \A i \in Tasks : tasks[i].snapshotPath = p =>
         /\ tasks[i].pc # "threw"
         /\ tasks[i].pc = "done" => tasks[i].result = Absent /\ tasks[i].snapshot = 0

\* Two get() calls for the default path, which has no file, have returned
\* absent one after the other; the path has no Snapshot and none was created.
C12_Witness ==
  /\ NothingFor(defaultSnapshotPath)
  /\ tasks[1].pc = "done" /\ tasks[1].snapshotPath = defaultSnapshotPath
  /\ tasks[2].pc = "done" /\ tasks[2].snapshotPath = defaultSnapshotPath
  /\ tasks[1].result = Absent /\ tasks[2].result = Absent
  /\ snapshots[defaultSnapshotPath] = 0
  /\ records = <<>>

\* The entries e1 (before) and e2 (after) differ at most in the used flag.
SameButUsed(e1, e2) == [e2 EXCEPT !.used = e1.used] = e1

\* C13: with update mode off, a get() call that returns on a Snapshot marks
\* the Snapshot used; when the Snapshot has the key of the call, it marks that
\* entry used and returns its value, otherwise it returns absent; it changes
\* no value or language, adds or removes no key, marks no other entry used and
\* leaves every other Snapshot as it was.
C13_GetFrame ==
  [][ ~options.updateSnapshots =>
        \A i \in Tasks : Returns(i) /\ tasks'[i].snapshot # 0 =>
          LET id == tasks'[i].snapshot
              key == buildEntriesKey(tasks'[i].testName, tasks'[i].entryName)
              before == records[id].entries
              after == records'[id].entries
          IN  /\ records'[id].used
              /\ DOMAIN after = DOMAIN before
              /\ \A k \in DOMAIN before :
                   /\ SameButUsed(before[k], after[k])
                   /\ k # key => after[k].used = before[k].used
              /\ IF key \in DOMAIN before
                 THEN after[key].used /\ tasks'[i].result = Present(before[key].value)
                 ELSE tasks'[i].result = Absent
              /\ DOMAIN records' = DOMAIN records
              /\ \A j \in DOMAIN records : j # id => records'[j] = records[j]
              /\ [records'[id] EXCEPT !.used = records[id].used, !.entries = before]
                   = records[id] ]_vars

\* With update mode off two get() calls have returned on the Snapshot loaded
\* from a file with two entries: one found its entry, the other found none;
\* the Snapshot is marked, and of its entries only the one that was found.
C13_Witness ==
  /\ ~options.updateSnapshots
  /\ tasks[1].pc = "done" /\ tasks[2].pc = "done"
  /\ tasks[1].snapshot # 0 /\ tasks[2].snapshot = tasks[1].snapshot
  /\ tasks[1].result = Present(V_1) /\ tasks[2].result = Absent
  /\ LET snapshot == records[tasks[1].snapshot]
         key == buildEntriesKey(tasks[1].testName, tasks[1].entryName)
     IN  /\ snapshot.existsOnDisk /\ snapshot.used
         /\ Cardinality(DOMAIN snapshot.entries) = 2
         /\ \A k \in DOMAIN snapshot.entries : snapshot.entries[k].used <=> k = key

\* What a get() call made in this state for the pair and the path returns when
\* the path has a Snapshot (lines 354 and 360-377).
GetNow(testName, entryName, p) ==
  getEntry(records, [IdleTask EXCEPT !.testName = testName, !.entryName = entryName,
                                     !.snapshotPath = p, !.snapshot = snapshots[p]]).result

\* The first half of C14: a set() call leaves, in the Snapshot of the resolved
\* path, the entry of its arguments with used = true under the key of the pair
\* and every other entry as it was; when the path had no Snapshot, the Snapshot
\* is a new one that has existsOnDisk = false, used = true and this one entry.
C14_SetInserts ==
  [][ \A testName \in TestNames, entryName \in EntryNames, value \in Values,
         language \in Languages, optionalFilename \in OptionalFilenames :
        Set(testName, entryName, value, language, optionalFilename) =>
          LET p == normalizeSnapshotPath(optionalFilename)
              key == buildEntriesKey(testName, entryName)
              entry == [testName |-> testName, entryName |-> entryName,
                        language |-> language, value |-> value, used |-> TRUE]
              after == records'[snapshots'[p]]
          IN  /\ snapshots'[p] # 0
              /\ \A q \in Paths : q # p => snapshots'[q] = snapshots[q]
              /\ key \in DOMAIN after.entries /\ after.entries[key] = entry
              /\ IF snapshots[p] # 0
                 THEN /\ snapshots'[p] = snapshots[p]
                      /\ DOMAIN records' = DOMAIN records
                      /\ DOMAIN after.entries = DOMAIN SnapshotOf(p).entries \cup {key}
                      /\ \A k \in DOMAIN SnapshotOf(p).entries :
                           k # key => after.entries[k] = SnapshotOf(p).entries[k]
                      /\ [after EXCEPT !.entries = SnapshotOf(p).entries] = SnapshotOf(p)
                 ELSE /\ snapshots'[p] \notin DOMAIN records
                      /\ ~after.existsOnDisk /\ after.used
                      /\ DOMAIN after.entries = {key}
              /\ \A id \in DOMAIN records : id # snapshots'[p] => records'[id] = records[id] ]_vars

\* The second half of C14: with update mode off and no get() having thrown, a
\* get() made now for a pair and path that set() has written returns the
\* value set last.
C14_LaterGet ==
  ~options.updateSnapshots /\ (\A i \in Tasks : tasks[i].pc # "threw") =>
    \A p \in Paths : \A k \in DOMAIN written[p] :
      /\ snapshots[p] # 0
      /\ GetNow(written[p][k].testName, written[p][k].entryName, p)
           = Present(written[p][k].value)

\* C14: set() inserts or overwrites the entry of (testName, entryName) in the
\* Snapshot of the resolved path with the given value and language and
\* used = true, creating an empty Snapshot with existsOnDisk = false and
\* used = true when the path has none; with update mode off a later get() of
\* the same pair and path returns the value set last.
C14_SetThenGet == C14_SetInserts /\ []C14_LaterGet

\* C15: getModifiedSnapshots(), partial or not, leaves every Snapshot with the
\* entries, values and used flags it had, so a get() that follows still finds
\* the entries that are not used, and a second call returns what the first
\* returned.
C15_NoMutation ==
  \A partial \in BOOLEAN :
    LET r == getModifiedSnapshots(partial, snapshots, records) IN
    /\ r.records = records
    /\ getModifiedSnapshots(partial, snapshots, r.records).value = r.value
    /\ ~options.updateSnapshots =>
         \A p \in Loaded : \A k \in DOMAIN SnapshotOf(p).entries :
           LET entry == SnapshotOf(p).entries[k] IN
           getEntry(r.records,
                    [IdleTask EXCEPT !.testName = entry.testName,
                                     !.entryName = entry.entryName,
                                     !.snapshotPath = p,
                                     !.snapshot = snapshots[p]]).result
             = Present(entry.value)

\* The non-partial call drops an entry of a Snapshot from its result and keeps
\* another one, and the Snapshot still has both; set() wrote the one kept.
C15_Witness ==
  \E p \in Loaded :
    LET r == getModifiedSnapshots(FALSE, snapshots, records) IN
    /\ DOMAIN r.value[p].entries # {}
    /\ DOMAIN r.value[p].entries # DOMAIN SnapshotOf(p).entries
    /\ DOMAIN r.value[p].entries = DOMAIN written[p]
    /\ r.records[snapshots[p]].entries = SnapshotOf(p).entries
    /\ setCalls = 1

\* ------------------------------------------------------ build and reload
\* The entries buildSnapshot was called on, and those of them marked used.
BuiltEntries == {records[1].entries[k] : k \in DOMAIN records[1].entries}
UsedEntries == {e \in BuiltEntries : e.used}
EntryTuple(e) == <<e.testName, e.entryName, e.language, e.value>>
IsBuilt == ret # NoRet /\ ret.op = "buildSnapshot"
IsReloaded == Len(records) = 2

\* C16: the entries loaded from the file that buildSnapshot wrote are the
\* used entries it was called on, with the same testName, entryName, language
\* and value, each with used = false; so for a test whose only entry is "0"
\* and for a test that has "0" among others.
C16_RoundTrip ==
  IsReloaded =>
    LET loaded == records[2].entries IN
    /\ {EntryTuple(loaded[k]) : k \in DOMAIN loaded} = {EntryTuple(e) : e \in UsedEntries}
    /\ Cardinality(DOMAIN loaded) = Cardinality(UsedEntries)
    /\ \A k \in DOMAIN loaded : ~loaded[k].used

\* The file that buildSnapshot wrote, read as the tests it lists: for every
\* level-2 heading, in the order of the text, the name in the heading, the
\* names in the level-3 headings up to the next level-2 heading, and the code
\* blocks among them.
Unticked(text) == SubSeq(text, 2, Len(text) - 1)
IsHeading(node, level) == node.type = "Heading" /\ node.level = level
WrittenTests ==
  LET nodes == parseSnapshot(ret.text)
      starts == {i \in 1 .. Len(nodes) : IsHeading(nodes[i], 2)}
      start(k) == CHOOSE i \in starts : Cardinality({j \in starts : j < i}) = k - 1
      group(k) == SubSeq(nodes, start(k) + 1,
                         IF k = Cardinality(starts) THEN Len(nodes) ELSE start(k + 1) - 1)
      IsEntryHeading(node) == IsHeading(node, 3)
      IsCodeBlock(node) == node.type = "CodeBlock"
      names(g) == LET hs == SelectSeq(g, IsEntryHeading)
                  IN  [i \in 1 .. Len(hs) |-> Unticked(hs[i].text)]
  IN  [k \in 1 .. Cardinality(starts) |->
         [testName |-> Unticked(nodes[start(k)].text),
          entryNames |-> names(group(k)),
          codeBlocks |-> SelectSeq(group(k), IsCodeBlock)]]

\* The used entries of a test.
UsedOf(testName) == {e \in UsedEntries : e.testName = testName}

\* Lexicographic order of two texts, by code unit.
LexLess(a, b) ==
  \E k \in 1 .. Len(b) :
    /\ k <= Len(a) + 1
    /\ \A i \in 1 .. k - 1 : a[i] = b[i]
    /\ k = Len(a) + 1 \/ CharCode(a[k]) < CharCode(b[k])

AllDigits(s) == s # <<>> /\ \A i \in 1 .. Len(s) : IsDigit(s[i])
\* Natural order of two names that are a number or have no digit.
NaturalLess(a, b) ==
  IF AllDigits(a) /\ AllDigits(b) THEN NumberOf(a, 0) < NumberOf(b, 0) ELSE LexLess(a, b)

\* C17: the text buildSnapshot returns is the same for every iteration order
\* of its entries; it lists the tests that have a used entry, each once, in
\* lexicographic order, and no entry that is not used; within a test the
\* entries are in natural order ("1", "2", "10").
C17_BuildOrder ==
  IsBuilt =>
    /\ \A entries \in IterationOrders(records[1].entries) :
         buildSnapshot(entries, Basename, Basename) = ret.text
    /\ LET tests == WrittenTests IN
       /\ {tests[k].testName : k \in DOMAIN tests} = {e.testName : e \in UsedEntries}
       /\ \A k, l \in DOMAIN tests : k < l => LexLess(tests[k].testName, tests[l].testName)
       /\ \A k \in DOMAIN tests :
            LET t == tests[k] IN
            /\ Len(t.codeBlocks) = Cardinality(UsedOf(t.testName))
            /\ \A i \in DOMAIN t.entryNames :
                 \E e \in UsedOf(t.testName) : e.entryName = t.entryNames[i]
            /\ \A i, j \in DOMAIN t.entryNames :
                 i < j => NaturalLess(t.entryNames[i], t.entryNames[j])
            /\ Len(t.entryNames) = Len(t.codeBlocks) =>
                 \A i \in DOMAIN t.entryNames :
                   \E e \in UsedOf(t.testName) :
                     /\ e.entryName = t.entryNames[i]
                     /\ e.value = t.codeBlocks[i].text

\* The entries "1", "2" and "10" of test t were written in this order, and
\* test u after test t.
C17_Witness ==
  /\ IsBuilt
  /\ Len(WrittenTests) = 2
  /\ WrittenTests[1].testName = T_t
  /\ WrittenTests[1].entryNames = <<E_1, E_2, E_10>>
  /\ WrittenTests[2].testName = T_u

\* C18: buildSnapshot writes no level-3 heading for a test exactly when the
\* used entries of the test are the single entry "0"; for any other test it
\* writes one level-3 heading per used entry, the entry "0" included.
C18_AnonymousOmission ==
  IsBuilt =>
    \A k \in DOMAIN WrittenTests :
      LET t == WrittenTests[k]
          usedNames == {e.entryName : e \in UsedOf(t.testName)}
          headed == {t.entryNames[i] : i \in DOMAIN t.entryNames}
      IN  IF usedNames = {E_0}
          THEN t.entryNames = <<>> /\ Len(t.codeBlocks) = 1
          ELSE /\ headed = usedNames
               /\ Len(t.entryNames) = Cardinality(usedNames)
               /\ Len(t.codeBlocks) = Cardinality(usedNames)

\* Three tests were written: one with "0" and another entry, both under a
\* heading; one with the single entry "0", under no heading; one with a
\* single entry of another name, under its heading.
C18_Witness ==
  /\ IsBuilt
  /\ \E k \in DOMAIN WrittenTests :
       WrittenTests[k].entryNames = <<E_0, E_1>> /\ Len(WrittenTests[k].codeBlocks) = 2
  /\ \E k \in DOMAIN WrittenTests :
       WrittenTests[k].entryNames = <<>> /\ Len(WrittenTests[k].codeBlocks) = 1
  /\ \E k \in DOMAIN WrittenTests :
       WrittenTests[k].entryNames = <<E_x>> /\ Len(WrittenTests[k].codeBlocks) = 1

\* The pair that identifies an entry.
PairOf(entry) == <<entry.testName, entry.entryName>>

\* C19: an entry of a Snapshot is identified by its pair (testName,
\* entryName), also when a name contains "#": a set() call leaves every entry
\* of another pair in the Snapshot as it was, and a get() call that returns a
\* value returns the value of an entry of its own pair.
C19_PairIdentifies ==
  [][ /\ \A testName \in KeyTestNames, entryName \in EntryNames, value \in Values,
            language \in Languages, optionalFilename \in OptionalFilenames :
           Set(testName, entryName, value, language, optionalFilename) =>
             LET p == normalizeSnapshotPath(optionalFilename) IN
             snapshots[p] # 0 =>
               \A k \in DOMAIN SnapshotOf(p).entries :
                 PairOf(SnapshotOf(p).entries[k]) # <<testName, entryName>> =>
                   \E k2 \in DOMAIN records'[snapshots'[p]].entries :
                     records'[snapshots'[p]].entries[k2] = SnapshotOf(p).entries[k]
      /\ \A i \in Tasks : Returns(i) /\ tasks'[i].result.present =>
           \E k \in DOMAIN records[tasks'[i].snapshot].entries :
             LET entry == records[tasks'[i].snapshot].entries[k] IN
             /\ PairOf(entry) = <<tasks'[i].testName, tasks'[i].entryName>>
             /\ entry.value = tasks'[i].result.value ]_vars

\* The Snapshot of the path has no entry marked used.
NoUsedEntry(p) == \A k \in DOMAIN SnapshotOf(p).entries : ~SnapshotOf(p).entries[k].used

DanglingHeading(nodes) ==
  \E i \in 1 .. Len(nodes) :
    /\ IsHeading(nodes[i], 3)
    /\ i = Len(nodes) \/ nodes[i + 1].type # "CodeBlock"

\* C21: the load of a file that has a level-3 heading not immediately followed
\* by a code block throws, wherever the heading stands (in a test group, after
\* the bare code block of a group, before any level-2 heading): no get() comes
\* back from the load of such a file with or without a Snapshot.
C21_DanglingHeadingThrows ==
  \A i \in Tasks :
    LET file == disk[tasks[i].snapshotPath] IN
    file.exists /\ DanglingHeading(file.content) => tasks[i].pc \notin {"loaded", "done"}

\* C22: the Snapshot stored for a path whose file exists has
\* existsOnDisk = true and has the entries parsed from the file (under their
\* keys), whatever get() and set() calls were made and however they
\* interleaved; a Snapshot with existsOnDisk = false is stored only for a path
\* without file.
C22_DiskRecord ==
  \A p \in Loaded :
    disk[p].exists =>
      /\ SnapshotOf(p).existsOnDisk
      /\ \A k \in DOMAIN loadEntries(disk[p].content, EmptyEntries).entries :
           k \in DOMAIN SnapshotOf(p).entries

\* C23: the used flags of a path only go from false to true: in no step (of
\* get, set, the load or getModifiedSnapshots) does the Snapshot stored for a
\* path go from used = true to used = false, nor does the entry stored in it
\* for a pair (testName, entryName); steps in which a get() throws are left
\* aside.
C23_UsedMonotonic ==
  [][ (\A i \in Tasks : tasks'[i].pc # "threw") =>
        \A p \in Loaded :
          /\ snapshots'[p] # 0
          /\ SnapshotOf(p).used => records'[snapshots'[p]].used
          /\ \A k \in DOMAIN SnapshotOf(p).entries :
               SnapshotOf(p).entries[k].used =>
                 \A k2 \in DOMAIN records'[snapshots'[p]].entries :
                   LET after == records'[snapshots'[p]].entries[k2] IN
                   PairOf(after) = PairOf(SnapshotOf(p).entries[k]) => after.used ]_vars

====
